---- MODULE Spec2Model ----
(***************************************************************************)
(* Model of 03_synthesizing_eeg_data/end_to_end_encoding_utils.py:        *)
(* load_images, load_eeg_data and create_dataloader (with the nested      *)
(* EegDataset class and the three DataLoaders it returns).                *)
(*                                                                         *)
(* Tensors are records [shape, data]; data is a nested sequence, 1-based  *)
(* in TLA+, so the 0-based Python index i is data[i + 1].                 *)
(***************************************************************************)
EXTENDS Integers, Sequences, FiniteSets, Bags, TLC

VARIABLES
    trainWalk,          \* os.walk output under image_set/training_images
    testWalk,           \* os.walk output under image_set/test_images
    trainArchive,       \* preprocessed_eeg_training.npy: 'preprocessed_eeg_data'
    testArchive,        \* preprocessed_eeg_test.npy: 'preprocessed_eeg_data'
    imagesLoaded,       \* load_images has returned
    eegLoaded,          \* load_eeg_data has returned
    X_train, X_val, X_test,     \* lists of image tensors
    y_train, y_val, y_test,     \* response tensors [stimuli, channels, timepoints]
    modeled_time_points, time_point, batch_size,    \* arguments of create_dataloader
    outcome,            \* "pending", "returned", or the exception raised
    train_ds, val_ds, test_ds,  \* the EegDataset objects
    train_dl, val_dl, test_dl,  \* the DataLoader objects
    access,             \* the last direct __getitem__ call and its result
    cur,                \* the pass in progress over one DataLoader (or the last one)
    firstOut            \* per DataLoader, what its first finished pass produced

loadVars == <<trainWalk, testWalk, trainArchive, testArchive, imagesLoaded, eegLoaded>>
dataVars == <<X_train, X_val, X_test, y_train, y_val, y_test>>
callVars == <<modeled_time_points, time_point, batch_size, outcome,
              train_ds, val_ds, test_ds, train_dl, val_dl, test_dl>>
iterVars == <<cur, firstOut>>
vars == <<loadVars, dataVars, callVars, access, iterVars>>

(***************************************************************************)
(* Bounds of the model.                                                    *)
(***************************************************************************)
MaxN == 21          \* training stimuli / training image files
MaxK == 2           \* test stimuli / test image files
MaxReps == 2        \* repetitions per stimulus in an archive
MaxCh == 2          \* channels
MaxT == 2           \* time points
MaxImgs == 1        \* images per list handed to create_dataloader
MaxRows == 2        \* response rows per tensor handed to create_dataloader
MaxTrain == 3       \* training examples when the loaders are iterated
MaxEval == 2        \* validation / test examples when the loaders are iterated
MaxB == 2           \* args.batch_size

(***************************************************************************)
(* Program constants.                                                      *)
(***************************************************************************)
HeldOutStride == 10
ArangeStep == 10

\* ---------------------------------------------------------------- helpers

Min(a, b) == IF a < b THEN a ELSE b

RECURSIVE GCD(_, _)
GCD(a, b) == IF b = 0 THEN a ELSE GCD(b, a % b)

RECURSIVE SumSeq(_)
SumSeq(s) == IF s = <<>> THEN 0 ELSE s[1] + SumSeq(Tail(s))

RECURSIVE Concat(_)
Concat(ss) == IF ss = <<>> THEN <<>> ELSE ss[1] \o Concat(Tail(ss))

RECURSIVE SeqToBag(_)
SeqToBag(s) == IF s = <<>> THEN EmptyBag ELSE SetToBag({s[1]}) (+) SeqToBag(Tail(s))

\* ------------------------------------------------------------ load_images

JpgFile(dir, id) == [dir |-> dir, id |-> id, ext |-> ".jpg"]
OtherFile(dir) == [dir |-> dir, id |-> 0, ext |-> ".txt"]

\* Full paths compare lexicographically; inside one directory tree the file
\* names are zero-padded numbers, so the order of paths is the order of ids.
PathLeq(a, b) == a.id <= b.id

\* lines 36-39 / 57-60: keep the files whose name ends with ".jpg"
EnumerateJpg(walk) == SelectSeq(walk, LAMBDA f : f.ext = ".jpg")

RECURSIVE InsertPath(_, _)
InsertPath(x, s) ==
    IF s = <<>> THEN <<x>>
    ELSE IF PathLeq(x, s[1]) THEN <<x>> \o s
    ELSE <<s[1]>> \o InsertPath(x, Tail(s))

\* line 40 / 61: image_list.sort()
RECURSIVE SortPaths(_)
SortPaths(s) == IF s = <<>> THEN <<>> ELSE InsertPath(s[1], SortPaths(Tail(s)))

\* lines 26-30, 44-45: Image.open(...).convert('RGB'), then Resize, ToTensor, Normalize
Preprocess(path) ==
    [op |-> "normalize", of |-> [op |-> "resize224", of |-> [op |-> "rgb", of |-> path]]]

\* lines 41-51: the loop over enumerate(image_list)
RECURSIVE SplitLoop(_, _, _, _)
SplitLoop(image_list, i, tr, va) ==
    IF i >= Len(image_list) THEN [X_train |-> tr, X_val |-> va]
    ELSE LET img == Preprocess(image_list[i + 1])
         IN IF i % HeldOutStride = 0
            THEN SplitLoop(image_list, i + 1, tr, Append(va, img))
            ELSE SplitLoop(image_list, i + 1, Append(tr, img), va)

SplitLoopOffByOne(image_list) ==
    LET RECURSIVE L(_, _, _)
        L(i, tr, va) ==
            IF i >= Len(image_list) THEN [X_train |-> tr, X_val |-> va]
            ELSE LET img == Preprocess(image_list[i + 1])
                 IN IF (i + 1) % HeldOutStride = 0
                    THEN L(i + 1, tr, Append(va, img))
                    ELSE L(i + 1, Append(tr, img), va)
    IN L(0, <<>>, <<>>)

SplitTrainVal(image_list) == SplitLoop(image_list, 0, <<>>, <<>>)

TestLoopHeldOut(image_list) == SplitLoop(image_list, 0, <<>>, <<>>).X_train

\* lines 62-66: every test image is appended to X_test
TestLoop(image_list) == [j \in 1..Len(image_list) |-> Preprocess(image_list[j])]

LoadImages ==
    /\ ~imagesLoaded
    /\ LET split == SplitTrainVal(SortPaths(EnumerateJpg(trainWalk)))
       IN /\ X_train' = split.X_train
          /\ X_val' = split.X_val
    /\ X_test' = TestLoop(SortPaths(EnumerateJpg(testWalk)))
    /\ imagesLoaded' = TRUE
    /\ UNCHANGED <<trainWalk, testWalk, trainArchive, testArchive, eegLoaded,
                   y_train, y_val, y_test, callVars, access, iterVars>>

\* ---------------------------------------------------------- load_eeg_data

\* An exact mean: the sum over the count, in lowest terms.
Mean(s) ==
    LET n == SumSeq(s)
        g == GCD(n, Len(s))
    IN [num |-> n \div g, den |-> Len(s) \div g]

\* lines 109, 125: np.mean(y, 1), [stimuli, reps, channels, times] -> [stimuli, channels, times]
MeanOverRepetitions(y) ==
    [shape |-> <<y.shape[1], y.shape[3], y.shape[4]>>,
     data |-> [s \in 1..y.shape[1] |-> [c \in 1..y.shape[3] |-> [t \in 1..y.shape[4] |->
                  Mean([r \in 1..y.shape[2] |-> y.data[s][r][c][t]])]]]]

\* np.arange(start, stop, step) for step > 0
RECURSIVE Arange(_, _, _)
Arange(start, stop, step) ==
    IF start >= stop THEN <<>> ELSE <<start>> \o Arange(start + step, stop, step)

ValIndicesShifted(n) == Arange(1, n, ArangeStep)

\* line 112: idx_val = np.arange(0, len(y_train), 10)
ValIndices(n) == Arange(0, n, ArangeStep)

\* line 113: y_train[idx_val]
TakeRows(y, idx) ==
    [shape |-> <<Len(idx), y.shape[2], y.shape[3]>>,
     data |-> [j \in 1..Len(idx) |-> y.data[idx[j] + 1]]]

RECURSIVE KeepRows(_, _, _)
KeepRows(rows, i, drop) ==
    IF i >= Len(rows) THEN <<>>
    ELSE (IF i \in drop THEN <<>> ELSE <<rows[i + 1]>>) \o KeepRows(rows, i + 1, drop)

\* line 114: np.delete(y_train, idx_val, 0)
DeleteRows(y, idx) ==
    LET kept == KeepRows(y.data, 0, {idx[j] : j \in 1..Len(idx)})
    IN [shape |-> <<Len(kept), y.shape[2], y.shape[3]>>, data |-> kept]

\* lines 116-117, 127: torch.tensor(np.float32(y))
Float32(y) ==
    [shape |-> y.shape,
     data |-> [s \in 1..y.shape[1] |-> [c \in 1..y.shape[2] |-> [t \in 1..y.shape[3] |->
                  [f32 |-> y.data[s][c][t]]]]]]

\* lines 123-127
TestResponses(archive) == Float32(MeanOverRepetitions(archive))

LoadEegData ==
    /\ ~eegLoaded
    /\ LET y == MeanOverRepetitions(trainArchive)
           idx_val == ValIndices(y.shape[1])
       IN /\ y_val' = Float32(TakeRows(y, idx_val))
          /\ y_train' = Float32(DeleteRows(y, idx_val))
    /\ y_test' = TestResponses(testArchive)
    /\ eegLoaded' = TRUE
    /\ UNCHANGED <<trainWalk, testWalk, trainArchive, testArchive, imagesLoaded,
                   X_train, X_val, X_test, callVars, access, iterVars>>

\* ------------------------------------------------------ create_dataloader

NoTensor == [shape |-> <<0, 0>>, data |-> <<>>]
NoDataset == [X |-> <<>>, has_y |-> FALSE, y |-> NoTensor,
              transform |-> "None", target_transform |-> "None"]
NoLoader == [dataset |-> NoDataset, batch_size |-> 0, shuffle |-> FALSE]

\* Python's index normalisation for a dimension of size n
PyIndex(i, n) == IF i < 0 THEN i + n ELSE i

\* line 179: y[:,:,time_point] (time_point already known to be in range)
SliceTime(y, tp) ==
    [shape |-> <<y.shape[1], y.shape[2]>>,
     data |-> [s \in 1..y.shape[1] |-> [c \in 1..y.shape[2] |->
                  y.data[s][c][PyIndex(tp, y.shape[3]) + 1]]]]

FlattenColumnMajor(y) ==
    [shape |-> <<y.shape[1], y.shape[2] * y.shape[3]>>,
     data |-> [s \in 1..y.shape[1] |->
                  Concat([t \in 1..y.shape[3] |-> [c \in 1..y.shape[2] |-> y.data[s][c][t]]])]]

\* line 181: torch.reshape(y, (y.shape[0], -1)) of a contiguous tensor: each
\* stimulus' channel rows laid end to end
ReshapeRows(y) ==
    [shape |-> <<y.shape[1], y.shape[2] * y.shape[3]>>,
     data |-> [s \in 1..y.shape[1] |-> Concat(y.data[s])]]

\* lines 174-183: EegDataset.__init__; self.X is bound to the enclosing
\* function's X_train, whatever X the caller passes
EegDatasetInit(X, y, mtp, tp) ==
    LET base == [X |-> X_train, has_y |-> FALSE, y |-> NoTensor,
                 transform |-> "None", target_transform |-> "None"]
    IN CASE mtp = "single" ->
              IF tp >= y.shape[3] \/ tp < 0 - y.shape[3]
              THEN [err |-> "IndexError", ds |-> NoDataset]
              ELSE [err |-> "", ds |-> [base EXCEPT !.has_y = TRUE, !.y = SliceTime(y, tp)]]
         [] mtp = "all" ->
              IF y.shape[1] * y.shape[2] * y.shape[3] = 0
              THEN [err |-> "RuntimeError", ds |-> NoDataset]
              ELSE [err |-> "", ds |-> [base EXCEPT !.has_y = TRUE, !.y = ReshapeRows(y)]]
         [] OTHER -> [err |-> "", ds |-> base]

\* lines 185-186: EegDataset.__len__
DsLen(ds) == IF ds.has_y THEN [err |-> "", n |-> ds.y.shape[1]]
             ELSE [err |-> "AttributeError", n |-> 0]

ApplyTransform(f, x) == IF f = "None" THEN x ELSE [op |-> f, of |-> x]

\* lines 188-195: EegDataset.__getitem__
DsGetItem(ds, idx) ==
    IF idx >= Len(ds.X) \/ idx >= ds.y.shape[1]
    THEN [err |-> "IndexError", item |-> <<>>]
    ELSE [err |-> "",
          item |-> <<ApplyTransform(ds.transform, ds.X[idx + 1]),
                     ApplyTransform(ds.target_transform, ds.y.data[idx + 1])>>]

\* torch.utils.data.DataLoader(ds, batch_size=bs, shuffle=sh): with shuffle a
\* RandomSampler is built first, which takes len(ds) and rejects 0 samples;
\* then the BatchSampler rejects a batch_size that is not positive
DataLoaderInit(ds, bs, sh) ==
    LET n == DsLen(ds)
    IN IF sh /\ n.err # "" THEN [err |-> n.err, dl |-> NoLoader]
       ELSE IF sh /\ n.n = 0 THEN [err |-> "ValueError", dl |-> NoLoader]
       ELSE IF bs <= 0 THEN [err |-> "ValueError", dl |-> NoLoader]
       ELSE [err |-> "", dl |-> [dataset |-> ds, batch_size |-> bs, shuffle |-> sh]]

\* lines 205, 207: DataLoader(ds, batch_size=ds.__len__(), shuffle=False)
EvalLoaderInit(ds) ==
    LET n == DsLen(ds)
    IN IF n.err # "" THEN [err |-> n.err, dl |-> NoLoader]
       ELSE DataLoaderInit(ds, n.n, FALSE)

RECURSIVE FirstError(_)
FirstError(errs) ==
    IF errs = <<>> THEN ""
    ELSE IF errs[1] # "" THEN errs[1] ELSE FirstError(Tail(errs))

\* lines 197-211, in program order; the first exception ends the call
CreateDataloader(mtp, tp, bs) ==
    /\ imagesLoaded /\ eegLoaded
    /\ outcome = "pending"
    /\ LET d1 == EegDatasetInit(X_train, y_train, mtp, tp)
           d2 == EegDatasetInit(X_val, y_val, mtp, tp)
           d3 == EegDatasetInit(X_test, y_test, mtp, tp)
           l1 == DataLoaderInit(d1.ds, bs, TRUE)
           l2 == EvalLoaderInit(d2.ds)
           l3 == EvalLoaderInit(d3.ds)
           e == FirstError(<<d1.err, d2.err, d3.err, l1.err, l2.err, l3.err>>)
       IN /\ outcome' = IF e = "" THEN "returned" ELSE e
          /\ train_ds' = IF e = "" THEN d1.ds ELSE NoDataset
          /\ val_ds' = IF e = "" THEN d2.ds ELSE NoDataset
          /\ test_ds' = IF e = "" THEN d3.ds ELSE NoDataset
          /\ train_dl' = IF e = "" THEN l1.dl ELSE NoLoader
          /\ val_dl' = IF e = "" THEN l2.dl ELSE NoLoader
          /\ test_dl' = IF e = "" THEN l3.dl ELSE NoLoader
    /\ modeled_time_points' = mtp
    /\ time_point' = tp
    /\ batch_size' = bs
    /\ UNCHANGED <<loadVars, dataVars, access, iterVars>>

PartNames == {"train", "val", "test"}

DatasetOf(name) ==
    CASE name = "train" -> train_ds [] name = "val" -> val_ds [] OTHER -> test_ds
LoaderOf(name) ==
    CASE name = "train" -> train_dl [] name = "val" -> val_dl [] OTHER -> test_dl

\* a direct len(ds) followed by ds[idx] on one of the datasets
GetItem(name, idx) ==
    /\ outcome = "returned"
    /\ idx \in 0..(DsLen(DatasetOf(name)).n - 1)
    /\ access' = [ds |-> name, len |-> DsLen(DatasetOf(name)).n, idx |-> idx,
                  res |-> DsGetItem(DatasetOf(name), idx)]
    /\ UNCHANGED <<loadVars, dataVars, callVars, iterVars>>

\* ------------------------------------------------- iterating a DataLoader

Permutations0(n) ==
    {p \in [1..n -> 0..(n - 1)] : \A a, b \in 1..n : p[a] = p[b] => a = b}

\* the sampler's index order for one pass: torch.randperm(n) or range(n)
SamplerOrders(dl) ==
    LET n == DsLen(dl.dataset).n
    IN IF dl.shuffle THEN Permutations0(n) ELSE {[j \in 1..n |-> j - 1]}

BatchIndicesDropLast(order, pos, bs) ==
    IF pos + bs <= Len(order) THEN SubSeq(order, pos + 1, pos + bs) ELSE <<>>

\* BatchSampler with drop_last=False: the next bs indices, or what is left
BatchIndices(order, pos, bs) == SubSeq(order, pos + 1, Min(pos + bs, Len(order)))

Fetch(dl, idxs) == [j \in 1..Len(idxs) |-> DsGetItem(dl.dataset, idxs[j])]

Idle == [dl |-> "none", first |-> FALSE, order |-> <<>>, pos |-> 0, out |-> <<>>,
         status |-> "idle"]
Unseen == [seen |-> FALSE, status |-> "idle", batches |-> <<>>, examples |-> EmptyBag]

\* What is kept of a loader's first finished pass: the examples it produced
\* and, for a loader that does not shuffle, the batches in order.
PassRecord(dl, status, out) ==
    [seen |-> TRUE, status |-> status,
     batches |-> IF dl.shuffle THEN <<>> ELSE out,
     examples |-> SeqToBag(Concat(out))]

Finish(status, out) ==
    /\ cur' = [cur EXCEPT !.status = status, !.out = out]
    /\ firstOut' = IF firstOut[cur.dl].seen THEN firstOut
                   ELSE [firstOut EXCEPT ![cur.dl] =
                            PassRecord(LoaderOf(cur.dl), status, out)]

\* iter(dl): a new pass starts, with a fresh sampler order
StartPass(name) ==
    /\ outcome = "returned"
    /\ cur.status # "running"
    /\ \E order \in SamplerOrders(LoaderOf(name)) :
          cur' = [dl |-> name, first |-> ~firstOut[name].seen, order |-> order,
                  pos |-> 0, out |-> <<>>, status |-> "running"]
    /\ UNCHANGED <<loadVars, dataVars, callVars, access, firstOut>>

\* next(it): the batch is fetched and collated
YieldBatch ==
    /\ cur.status = "running"
    /\ LET dl == LoaderOf(cur.dl)
           idxs == BatchIndices(cur.order, cur.pos, dl.batch_size)
           got == Fetch(dl, idxs)
       IN /\ idxs # <<>>
          /\ \A j \in 1..Len(got) : got[j].err = ""
          /\ cur' = [cur EXCEPT !.pos = cur.pos + Len(idxs),
                                !.out = Append(cur.out, [j \in 1..Len(got) |-> got[j].item])]
    /\ UNCHANGED <<loadVars, dataVars, callVars, access, firstOut>>

\* next(it): __getitem__ raises while the batch is fetched; the pass is over
FetchRaises ==
    /\ cur.status = "running"
    /\ LET dl == LoaderOf(cur.dl)
           idxs == BatchIndices(cur.order, cur.pos, dl.batch_size)
           got == Fetch(dl, idxs)
       IN /\ idxs # <<>>
          /\ \E j \in 1..Len(got) : got[j].err # ""
    /\ Finish("raised", cur.out)
    /\ UNCHANGED <<loadVars, dataVars, callVars, access>>

\* next(it): the sampler is exhausted, StopIteration
EndPass ==
    /\ cur.status = "running"
    /\ BatchIndices(cur.order, cur.pos, LoaderOf(cur.dl).batch_size) = <<>>
    /\ Finish("done", cur.out)
    /\ UNCHANGED <<loadVars, dataVars, callVars, access>>

\* ------------------------------------------------------------ initial states

NoArchive == [shape |-> <<0, 1, 1, 1>>, data |-> <<>>]
NoResponses == [shape |-> <<0, 1, 1>>, data |-> <<>>]
NoAccess == [ds |-> "none", len |-> 0, idx |-> 0, res |-> [err |-> "", item |-> <<>>]]

NotCalled ==
    /\ modeled_time_points = "" /\ time_point = 0 /\ batch_size = 0
    /\ outcome = "pending"
    /\ train_ds = NoDataset /\ val_ds = NoDataset /\ test_ds = NoDataset
    /\ train_dl = NoLoader /\ val_dl = NoLoader /\ test_dl = NoLoader
    /\ access = NoAccess
    /\ cur = Idle
    /\ firstOut = [p \in PartNames |-> Unseen]

\* os.walk yields the files of a tree in no particular order
Walks(dir, n) ==
    LET asc == [j \in 1..n |-> JpgFile(dir, j)]
        desc == [j \in 1..n |-> JpgFile(dir, n + 1 - j)]
        odds == SelectSeq(asc, LAMBDA f : f.id % 2 = 1)
        evens == SelectSeq(asc, LAMBDA f : f.id % 2 = 0)
    IN {asc, <<OtherFile(dir)>> \o desc, evens \o <<OtherFile(dir)>> \o odds}

\* a recording [stimuli, repetitions, channels, timepoints]; every stimulus has
\* its own values
Archive(base, n, reps, ch, nt) ==
    [shape |-> <<n, reps, ch, nt>>,
     data |-> [s \in 1..n |-> [r \in 1..reps |-> [c \in 1..ch |-> [t \in 1..nt |->
                  base + 100 * s + 10 * c + t + (r - 1) * (s % 3)]]]]]

InitLoad ==
    /\ \E n \in 0..MaxN, k \in 0..MaxK :
          /\ trainWalk \in Walks("training_images", n)
          /\ testWalk \in Walks("test_images", k)
          /\ \E reps \in 1..MaxReps, ch \in {MaxCh}, nt \in {MaxT} :
                /\ \E ns \in {n, MaxN - n} : trainArchive = Archive(0, ns, reps, ch, nt)
                /\ \E ks \in {k, MaxK - k} : testArchive = Archive(5000, ks, reps, ch, nt)
    /\ imagesLoaded = FALSE /\ eegLoaded = FALSE
    /\ X_train = <<>> /\ X_val = <<>> /\ X_test = <<>>
    /\ y_train = NoResponses /\ y_val = NoResponses /\ y_test = NoResponses
    /\ NotCalled

NextLoad == LoadImages \/ LoadEegData

SpecLoad == InitLoad /\ [][NextLoad]_vars

Images(part, n) == [j \in 1..n |-> [part |-> part, i |-> j - 1]]

Responses(base, n, ch, nt) ==
    [shape |-> <<n, ch, nt>>,
     data |-> [s \in 1..n |-> [c \in 1..ch |-> [t \in 1..nt |->
                  base + (s - 1) * ch * nt + (c - 1) * nt + (t - 1)]]]]

Loaded ==
    /\ trainWalk = <<>> /\ testWalk = <<>>
    /\ trainArchive = NoArchive /\ testArchive = NoArchive
    /\ imagesLoaded = TRUE /\ eegLoaded = TRUE

\* the data handed to create_dataloader, image and response counts chosen
\* independently for the training and the test partition
Init ==
    /\ Loaded
    /\ \E ch \in 1..MaxCh, nt \in 1..MaxT :
          /\ \E r \in 0..MaxRows : y_train = Responses(100, r, ch, nt)
          /\ \E r \in 0..MaxRows : y_test = Responses(300, r, ch, nt)
          /\ \E r \in 0..MaxImgs : /\ y_val = Responses(200, r, ch, nt)
                                   /\ X_val = Images("val", r)
    /\ \E n \in 0..MaxImgs : X_train = Images("train", n)
    /\ \E n \in 0..MaxImgs : X_test = Images("test", n)
    /\ NotCalled

Modes == {"single", "all", "other"}

Next ==
    \/ \E mtp \in Modes, tp \in (0 - MaxT - 1)..MaxT, bs \in 0..1 :
          CreateDataloader(mtp, tp, bs)
    \/ \E name \in PartNames, idx \in 0..MaxRows : GetItem(name, idx)

Spec == Init /\ [][Next]_vars

InitIter ==
    /\ Loaded
    /\ \E r \in 0..MaxTrain :
          /\ y_train = Responses(100, r, 1, 1)
          /\ \E n \in {r - 1, r} \cap 0..MaxTrain : X_train = Images("train", n)
    /\ \E r \in 0..MaxEval : y_val = Responses(200, r, 1, 1) /\ X_val = Images("val", r)
    /\ \E r \in {0, MaxEval} : y_test = Responses(300, r, 1, 1) /\ X_test = Images("test", r)
    /\ NotCalled

PassStep == YieldBatch \/ FetchRaises \/ EndPass

NextIter ==
    \/ \E bs \in 0..MaxB : CreateDataloader("single", 0, bs)
    \/ \E name \in PartNames : StartPass(name)
    \/ YieldBatch
    \/ FetchRaises
    \/ EndPass

SpecIter == InitIter /\ [][NextIter]_vars

\* a consumer's for-loop keeps calling next() until the pass ends
FairSpecIter == SpecIter /\ WF_vars(PassStep)

\* ------------------------------------------------------------------ claims

XOf(name) == CASE name = "train" -> X_train [] name = "val" -> X_val [] OTHER -> X_test
YOf(name) == CASE name = "train" -> y_train [] name = "val" -> y_val [] OTHER -> y_test

Called == outcome # "pending"
Returned == outcome = "returned"

\* what the sorted training / test image lists hold at 0-based position p
TrainImageAt(p) == Preprocess(JpgFile("training_images", p + 1))
TestImageAt(p) == Preprocess(JpgFile("test_images", p + 1))
NumTrainImages == Len(EnumerateJpg(trainWalk))
NumTestImages == Len(EnumerateJpg(testWalk))

\* v is the float32 of the mean over the repetitions of stimulus s (0-based),
\* channel c, time t of the archive: v * reps = the sum over the repetitions
IsMeanOf(v, archive, s, c, t) ==
    v.f32.num * archive.shape[2] =
        v.f32.den * SumSeq([r \in 1..archive.shape[2] |-> archive.data[s + 1][r][c][t]])

\* row is the averaged response of stimulus s (0-based) of the archive
IsRowOf(row, archive, s) ==
    /\ Len(row) = archive.shape[3]
    /\ \A c \in 1..archive.shape[3] :
          /\ Len(row[c]) = archive.shape[4]
          /\ \A t \in 1..archive.shape[4] : IsMeanOf(row[c][t], archive, s, c, t)

\* the 0-based position of the j-th (1-based) element that is not held out
TrainPosition(j) == j + (j - 1) \div 9

Aligned(name) == Len(XOf(name)) = YOf(name).shape[1]

\* C1: every dataset returns, at each index valid for its partition, the
\* image of its own partition's list (train_ds[i] = X_train[i], val_ds[i] =
\* X_val[i], test_ds[i] = X_test[i]); stated for partitions that each have
\* as many images as response rows.
C1_OwnPartitionImages ==
    (Returned /\ \A name \in PartNames : Aligned(name)) =>
        \A name \in PartNames :
            \A i \in 0..(DsLen(DatasetOf(name)).n - 1) :
                LET r == DsGetItem(DatasetOf(name), i)
                IN r.err = "" /\ r.item[1] = XOf(name)[i + 1]

\* C2: load_images routes exactly the sorted positions 0, 10, 20, ... to X_val
\* and all others to X_train, both in ascending position order, so that
\* len(X_val) = ceil(N/10) and len(X_train) = N - len(X_val).
C2_HeldOutSplit ==
    imagesLoaded =>
        /\ Len(X_val) = (NumTrainImages + 9) \div 10
        /\ Len(X_train) = NumTrainImages - Len(X_val)
        /\ \A j \in 1..Len(X_val) : X_val[j] = TrainImageAt(10 * (j - 1))
        /\ \A j \in 1..Len(X_train) : X_train[j] = TrainImageAt(TrainPosition(j))

C2_Witness ==
    /\ imagesLoaded
    /\ Len(X_val) = 3
    /\ Len(X_train) = 18
    /\ trainWalk[1].ext = ".txt"

\* C3: with as many training images as training stimuli, the j-th element of
\* X_val and the j-th row of y_val come from the same stimulus, and so do the
\* j-th element of X_train and the j-th row of y_train.
C3_SplitsAligned ==
    (imagesLoaded /\ eegLoaded /\ NumTrainImages = trainArchive.shape[1]) =>
        /\ Len(X_val) = y_val.shape[1] /\ Len(y_val.data) = y_val.shape[1]
        /\ Len(X_train) = y_train.shape[1] /\ Len(y_train.data) = y_train.shape[1]
        /\ \A j \in 1..Len(X_val) :
              \E s \in 0..(NumTrainImages - 1) :
                  X_val[j] = TrainImageAt(s) /\ IsRowOf(y_val.data[j], trainArchive, s)
        /\ \A j \in 1..Len(X_train) :
              \E s \in 0..(NumTrainImages - 1) :
                  X_train[j] = TrainImageAt(s) /\ IsRowOf(y_train.data[j], trainArchive, s)

C3_Witness ==
    /\ imagesLoaded /\ eegLoaded
    /\ NumTrainImages = trainArchive.shape[1]
    /\ y_val.shape[1] = 3
    /\ y_train.shape[1] = 18
    /\ trainArchive.shape[2] = 2

\* C4: in 'single' mode the target of example i is the vector of y[i, c,
\* time_point] over the channels c; in 'all' mode it has channels * timepoints
\* entries and entry c * timepoints + t is y[i, c, t].
C4_TargetLayout ==
    Returned =>
        \A name \in PartNames :
            LET y == YOf(name)
                tgt == DatasetOf(name).y
                ch == y.shape[2]
                nt == y.shape[3]
            IN /\ Len(tgt.data) = y.shape[1]
               /\ modeled_time_points = "single" =>
                     \A i \in 1..y.shape[1] :
                        /\ Len(tgt.data[i]) = ch
                        /\ \A c \in 1..ch :
                              tgt.data[i][c] =
                                 y.data[i][c][(IF time_point < 0 THEN nt + time_point
                                               ELSE time_point) + 1]
               /\ modeled_time_points = "all" =>
                     \A i \in 1..y.shape[1] :
                        /\ Len(tgt.data[i]) = ch * nt
                        /\ \A c \in 0..(ch - 1), t \in 0..(nt - 1) :
                              tgt.data[i][c * nt + t + 1] = y.data[i][c + 1][t + 1]

C4_Witness ==
    /\ Returned
    /\ modeled_time_points = "all"
    /\ y_train.shape = <<2, 2, 2>>
    /\ access.ds = "train" /\ access.idx = 0 /\ access.res.err = ""
    /\ Len(access.res.item[2]) = 4

\* expected examples of a partition: its own images paired with its targets
ExpectedExamples(name) ==
    [j \in 1..Len(XOf(name)) |-> <<XOf(name)[j], DatasetOf(name).y.data[j]>>]

PassOver == cur.status \in {"done", "raised"}

\* C5: a pass of the training iterator over M examples with batch size B
\* yields ceil(M/B) batches whose sizes sum to M with every example once; a
\* pass of the validation or test iterator yields exactly one batch holding
\* the whole partition in index order; stated for partitions that each have
\* as many images as response rows.
C5_BatchesCoverPartition ==
    (PassOver /\ \A name \in PartNames : Aligned(name)) =>
        /\ cur.status = "done"
        /\ cur.dl = "train" =>
              /\ Len(cur.out) = (Len(X_train) + batch_size - 1) \div batch_size
              /\ Len(Concat(cur.out)) = Len(X_train)
              /\ SeqToBag(Concat(cur.out)) = SeqToBag(ExpectedExamples("train"))
        /\ cur.dl \in {"val", "test"} => cur.out = <<ExpectedExamples(cur.dl)>>

\* C6: create_dataloader rejects, and returns no iterators for, a mode that is
\* neither 'single' nor 'all' and, in 'single' mode, a time_point outside
\* 0..timepoints-1, negative values included.
C6_InvalidConfigurationRejected ==
    (Called /\ (\/ modeled_time_points \notin {"single", "all"}
                \/ /\ modeled_time_points = "single"
                   /\ time_point \notin 0..(y_train.shape[3] - 1))) =>
        ~Returned

\* C7: create_dataloader never returns iterators over a partition whose image
\* count differs from its number of response rows.
C7_ShapeMismatchReported ==
    Returned => \A name \in PartNames : Aligned(name)

\* C8 (state part): the validation and test iterators produce the same
\* sequence in every pass, and the training iterator (over a partition with an
\* image for every response row) the same multiset of examples in every pass;
\* a new pass can be started after any pass.
C8_SameAsFirstPass ==
    /\ PassOver =>
          LET f == firstOut[cur.dl]
          IN /\ f.seen
             /\ cur.dl \in {"val", "test"} => cur.status = f.status /\ cur.out = f.batches
             /\ (cur.dl = "train" /\ Len(X_train) >= y_train.shape[1]) =>
                   /\ cur.status = "done" /\ f.status = "done"
                   /\ SeqToBag(Concat(cur.out)) = f.examples
                   /\ Len(Concat(cur.out)) = y_train.shape[1]
    /\ (Returned /\ cur.status # "running") =>
          \A name \in PartNames : ENABLED StartPass(name)

C9_TestUnsplit ==
    /\ imagesLoaded =>
          /\ Len(X_test) = NumTestImages
          /\ \A j \in 1..Len(X_test) : X_test[j] = TestImageAt(j - 1)
          /\ Len(X_train) + Len(X_val) = NumTrainImages
          /\ \A j \in 1..Len(X_train) : X_train[j].of.of.of.dir = "training_images"
          /\ \A j \in 1..Len(X_val) : X_val[j].of.of.of.dir = "training_images"
    /\ eegLoaded =>
          /\ y_test.shape[1] = testArchive.shape[1]
          /\ Len(y_test.data) = testArchive.shape[1]
          /\ \A j \in 1..Len(y_test.data) : IsRowOf(y_test.data[j], testArchive, j - 1)
          /\ y_train.shape[1] + y_val.shape[1] = trainArchive.shape[1]
          /\ \A j \in 1..Len(y_train.data) :
                \E s \in 0..(trainArchive.shape[1] - 1) :
                    IsRowOf(y_train.data[j], trainArchive, s)
          /\ \A j \in 1..Len(y_val.data) :
                \E s \in 0..(trainArchive.shape[1] - 1) :
                    IsRowOf(y_val.data[j], trainArchive, s)

C9_Witness ==
    /\ imagesLoaded /\ eegLoaded
    /\ Len(X_test) = 2
    /\ y_test.shape[1] = 2
    /\ Len(X_val) = 1

\* C10: for every dataset, len is the number of target rows of its partition
\* and every idx below it returns the pair (image, target) of that partition
\* at idx; stated for partitions that each have as many images as response
\* rows.
C10_IndexedAccess ==
    (access.ds # "none" /\ \A name \in PartNames : Aligned(name)) =>
        /\ access.len = YOf(access.ds).shape[1]
        /\ access.res.err = ""
        /\ access.res.item = <<XOf(access.ds)[access.idx + 1],
                               DatasetOf(access.ds).y.data[access.idx + 1]>>

====
